---- MODULE Spec2Model ----
(***************************************************************************)
(* Raster-to-vector pipeline of PNG-SVG ("SVG Turner"): hybrid dilation,   *)
(* Moore-neighbour contour tracing, Douglas-Peucker simplification and     *)
(* Bezier curve fitting, each stage modelled from its JavaScript source.   *)
(*                                                                         *)
(* Every stage is a pure function of its arguments, so each stage has its  *)
(* own specification: Init draws the stage's arguments from bounded sets   *)
(* and the actions run the stage's code.  The variables of the stages a    *)
(* specification does not run stay at their idle values.                   *)
(*                                                                         *)
(* Numbers.  Coordinates are integers (pixel positions).  A distance d is  *)
(* never computed: every comparison the code makes on distances is made on *)
(* squares (d > 1.0 is dSq > 1, d < 0.1 is 100 * dSq < 1), which is exact  *)
(* for integer coordinates of this size in IEEE doubles as well.           *)
(***************************************************************************)
EXTENDS Integers, Sequences, FiniteSets, TLC

VARIABLES
    \* dilateHybrid (step2b_dilate.js)
    mask,                 \* the input mask, mask[y][x] \in {0,1}
    coverageMask,         \* the coverage mask, same dimensions
    unconditionalPasses,  \* options.unconditionalPasses
    smartPasses,          \* options.smartPasses
    result,               \* the local `result` of dilateHybrid
    resultRef,            \* the array `result` refers to: "mask" (the caller's input
                          \* array) or "output" (a buffer made by dilateOnce)
    passIdx,              \* the loop counter i of the running for-loop
    dpc                   \* position in dilateHybrid: "uncond", "smart", "done", "idle"

VARIABLES
    \* traceContours (step3_tracing, second half of step4_simplification.js); its
    \* argument is the variable mask above
    visited,              \* visited[y][x], BOOLEAN
    contours,             \* the list of {points, isHole} built so far
    scanIdx,              \* position y * width + x of the row-major scan
    startX, startY,       \* the region start handed to mooreNeighborTrace
    cx, cy,               \* current pixel of the boundary walk
    backtrackDir,         \* index into DIRECTIONS
    loopCount,            \* iterations of the walk's while (true)
    contour,              \* the point list of the running walk
    walkEnd,              \* which break ended the last walk: "closed", "isolated", "cap"
    walkEnds,             \* walkEnd of every contour of contours, in order
    pushed,               \* every queue entry of the last flood fill, in push order
    tpc                   \* position in traceContours: "scan", "walk", "flood", "done", "idle"

VARIABLES
    \* simplifyPath (step4_simplification.js)
    points,               \* the point list handed to simplifyPath / fitCurves
    tolerance,            \* the tolerance, in pixels
    simplified,           \* simplifyPath(points, tolerance)
    resimplified,         \* simplifyPath(simplified, tolerance)
    spc                   \* "in", "once", "twice", "threw", "idle"

VARIABLES
    \* fitCurves (part_000)
    cleanPoints,          \* filterDuplicates(points, 1.0)
    curves,               \* the curves fitCurves returns
    fpc                   \* "in", "filtered", "fitted", "idle"

VARIABLES
    \* quantizeImage (step2_quantize.js)
    pixels,               \* pixelData.pixels, one record [r, g, b, a] per pixel index
    colorCount,           \* the parameter colorCount (K)
    centers,              \* the cluster centers
    clusters,             \* the clusters of the running iteration
    assignedBy,           \* history: the centers the last assignment loop compared
    iter,                 \* the loop counter iter
    layers,               \* the list quantizeImage returns
    qpc                   \* "in", "kmeans", "returned", "idle"

VARIABLES
    \* main (main.js), the layer loop and the final sort
    traced,               \* traced[i]: the contours traceContours returns for layer i
    layerIdx,             \* the number of layers processed (the loop counter i)
    allShapes,            \* allShapes
    mpc                   \* "quantize", "loop", "done", "idle"

dilateVars == <<coverageMask, unconditionalPasses, smartPasses, result, resultRef, passIdx, dpc>>

traceVars == <<visited, contours, scanIdx, startX, startY, cx, cy, backtrackDir,
               loopCount, contour, walkEnd, walkEnds, pushed, tpc>>

simplifyVars == <<tolerance, simplified, resimplified, spc>>

fitVars == <<cleanPoints, curves, fpc>>

quantizeVars == <<pixels, colorCount, centers, clusters, assignedBy, iter, qpc>>

mainVars == <<traced, layerIdx, allShapes, mpc>>

vars == <<mask, dilateVars, traceVars, points, simplifyVars, fitVars, quantizeVars, layers, mainVars>>

(***************************************************************************)
(* Bounds of the model.                                                    *)
(***************************************************************************)
GridW == 3              \* width of the masks
GridH == 3              \* height of the masks
MaxMaskPixels == 1      \* foreground pixels of a dilation input mask
MaxCoverageHoles == 1   \* pixels missing from a coverage mask
MaxPasses == 1          \* largest pass count of either dilation loop
MaxMinorityPixels == 4  \* pixels of the rarer value (0 or 1) in a traced mask
MaxCoord == 2           \* simplifyPath points: x in 0 .. MaxCoord, y in 0 .. MaxCoord \div 2
FitMaxCoord == 3        \* fitCurves points: x in 0 .. FitMaxCoord, y in 0 .. FitMaxCoord \div 3
MaxPoints == 4          \* length of a point list
MaxTolerance == 1       \* simplification tolerances -MaxTolerance .. MaxTolerance
MaxVisible == 4         \* visible pixels of a quantized image
MaxChannel == 5         \* colour channel values 0 .. MaxChannel
MaxColorCount == 2      \* colorCount in 1 .. MaxColorCount; layers of an assembly
MaxContours == 3        \* contours of an assembly, all layers together
RectH == 5              \* height of the rectangular contours of an assembly

(***************************************************************************)
(* Masks: number[][] indexed mask[y][x], 0-based.                          *)
(***************************************************************************)
Cols == 0 .. (GridW - 1)
Rows == 0 .. (GridH - 1)
Pixels == Cols \X Rows                  \* <<x, y>>

MaskOf(S) == [y \in Rows |-> [x \in Cols |-> IF <<x, y>> \in S THEN 1 ELSE 0]]

Foreground(m) == {p \in Pixels : m[p[2]][p[1]] = 1}

NoMask == <<>>          \* JavaScript null passed as coverageMask

InBounds(nx, ny) == ny >= 0 /\ ny < GridH /\ nx >= 0 /\ nx < GridW

(***************************************************************************)
(* dilateOnce: a fresh all-zero output; every foreground pixel of the      *)
(* input writes 1 to itself and its 8 neighbours, where the target is in   *)
(* bounds and (no coverage mask is given or the coverage mask is 1 there). *)
(***************************************************************************)
DilateOnceUnchecked(m, cov) ==
    LET written == {n \in UNION {{<<p[1] + dx, p[2] + dy>> : dx \in -1 .. 1, dy \in -1 .. 1}
                                 : p \in Foreground(m)}
                      : InBounds(n[1], n[2])}
    IN  MaskOf(written)

DilateOnceNoSelf(m, cov) ==
    LET written == {n \in UNION {{<<p[1] + dx, p[2] + dy>> : dx \in -1 .. 1, dy \in -1 .. 1}
                                    \ {p}
                                 : p \in Foreground(m)}
                      : /\ InBounds(n[1], n[2])
                        /\ (cov = NoMask \/ cov[n[2]][n[1]] = 1)}
    IN  MaskOf(written)

dilateOnce(m, cov) ==
    LET written == {n \in UNION {{<<p[1] + dx, p[2] + dy>> : dx \in -1 .. 1, dy \in -1 .. 1}
                                 : p \in Foreground(m)}
                      : /\ InBounds(n[1], n[2])
                        /\ (cov = NoMask \/ cov[n[2]][n[1]] = 1)}
    IN  MaskOf(written)

(***************************************************************************)
(* dilateHybrid, one action per loop iteration.                            *)
(***************************************************************************)
DilateInputs ==
    /\ mask \in {MaskOf(S) : S \in {T \in SUBSET Pixels : Cardinality(T) <= MaxMaskPixels}}
    /\ coverageMask \in {MaskOf(Pixels \ S) :
                           S \in {T \in SUBSET Pixels : Cardinality(T) <= MaxCoverageHoles}}
    /\ unconditionalPasses \in 0 .. MaxPasses
    /\ smartPasses \in 0 .. MaxPasses

DilateInit ==
    /\ DilateInputs
    /\ result = mask            \* let result = mask;
    /\ resultRef = "mask"       \* ... a reference to the caller's array, not a copy
    /\ passIdx = 0
    /\ dpc = "uncond"

DilateIdle ==
    /\ coverageMask = NoMask
    /\ unconditionalPasses = 0
    /\ smartPasses = 0
    /\ result = NoMask
    /\ resultRef = "none"
    /\ passIdx = 0
    /\ dpc = "idle"

\* for (i < unconditionalPasses) result = dilateOnce(result, null);
DilateUnconditionalPass ==
    /\ dpc = "uncond"
    /\ passIdx < unconditionalPasses
    /\ result' = dilateOnce(result, NoMask)
    /\ resultRef' = "output"    \* dilateOnce returns the buffer it created
    /\ passIdx' = passIdx + 1
    /\ UNCHANGED <<mask, coverageMask, unconditionalPasses, smartPasses, dpc, traceVars, points, simplifyVars, fitVars, quantizeVars, layers, mainVars>>

\* the first loop ends, the second starts with i = 0
DilateEnterSmart ==
    /\ dpc = "uncond"
    /\ passIdx >= unconditionalPasses
    /\ dpc' = "smart"
    /\ passIdx' = 0
    /\ UNCHANGED <<mask, coverageMask, unconditionalPasses, smartPasses, result, resultRef, traceVars, points, simplifyVars, fitVars, quantizeVars, layers, mainVars>>

\* for (i < smartPasses) result = dilateOnce(result, coverageMask);
DilateSmartPass ==
    /\ dpc = "smart"
    /\ passIdx < smartPasses
    /\ result' = dilateOnce(result, coverageMask)
    /\ resultRef' = "output"
    /\ passIdx' = passIdx + 1
    /\ UNCHANGED <<mask, coverageMask, unconditionalPasses, smartPasses, dpc, traceVars, points, simplifyVars, fitVars, quantizeVars, layers, mainVars>>

\* return result;
DilateReturn ==
    /\ dpc = "smart"
    /\ passIdx >= smartPasses
    /\ dpc' = "done"
    /\ UNCHANGED <<mask, coverageMask, unconditionalPasses, smartPasses, result, resultRef, passIdx, traceVars, points, simplifyVars, fitVars, quantizeVars, layers, mainVars>>

DilateNext ==
    \/ DilateUnconditionalPass
    \/ DilateEnterSmart
    \/ DilateSmartPass
    \/ DilateReturn

(***************************************************************************)
(* traceContours, mooreNeighborTrace, floodFillVisited.                    *)
(***************************************************************************)
MAX_LOOP == 20          \* the walk's iteration cap (10000 in the source), scaled to the grid

\* Moore neighbourhood, clockwise from North; DIRECTIONS[d + 1] is the source's DIRECTIONS[d]
DIRECTIONS ==
    << [dx |-> 0,  dy |-> -1], [dx |-> 1,  dy |-> -1], [dx |-> 1,  dy |-> 0],
       [dx |-> 1,  dy |-> 1],  [dx |-> 0,  dy |-> 1],  [dx |-> -1, dy |-> 1],
       [dx |-> -1, dy |-> 0],  [dx |-> -1, dy |-> -1] >>

Pt(x, y) == [x |-> x, y |-> y]

NoneVisited == [y \in Rows |-> [x \in Cols |-> FALSE]]

\* the scan's test: mask[y][x] === 1 && !visited[y][x], at row-major position k
IsRegionStart(m, vis, k) ==
    LET x == k % GridW
        y == k \div GridW
    IN  m[y][x] = 1 /\ ~vis[y][x]

\* the 4-connected neighbours of floodFillVisited, in the order the code lists them
FloodNeighbours(p) ==
    << Pt(p.x + 1, p.y), Pt(p.x - 1, p.y), Pt(p.x, p.y + 1), Pt(p.x, p.y - 1) >>

\* the inner for-loop of floodFillVisited over the neighbours ns of one dequeued pixel
RECURSIVE FloodVisit(_, _, _, _, _)
FloodVisit(m, ns, queue, vis, log) ==
    IF ns = <<>>
    THEN [queue |-> queue, visited |-> vis, pushed |-> log]
    ELSE LET n == Head(ns)
         IN  IF /\ n.x >= 0 /\ n.x < GridW /\ n.y >= 0 /\ n.y < GridH
                /\ m[n.y][n.x] = 1 /\ ~vis[n.y][n.x]
             THEN FloodVisit(m, Tail(ns), Append(queue, n),
                             [vis EXCEPT ![n.y][n.x] = TRUE], Append(log, n))
             ELSE FloodVisit(m, Tail(ns), queue, vis, log)

\* the same loop marking nothing at push time (visited is set when a pixel is dequeued)
RECURSIVE FloodVisitLate(_, _, _, _, _)
FloodVisitLate(m, ns, queue, vis, log) ==
    IF ns = <<>>
    THEN [queue |-> queue, visited |-> vis, pushed |-> log]
    ELSE LET n == Head(ns)
         IN  IF /\ n.x >= 0 /\ n.x < GridW /\ n.y >= 0 /\ n.y < GridH
                /\ m[n.y][n.x] = 1 /\ ~vis[n.y][n.x]
             THEN FloodVisitLate(m, Tail(ns), Append(queue, n), vis, Append(log, n))
             ELSE FloodVisitLate(m, Tail(ns), queue, vis, log)

\* while (queue.length > 0) { const {x, y} = queue.shift(); ... }
RECURSIVE FloodLoop(_, _, _, _)
FloodLoop(m, queue, vis, log) ==
    IF queue = <<>>
    THEN [visited |-> vis, pushed |-> log]
    ELSE LET r == FloodVisit(m, FloodNeighbours(Head(queue)), Tail(queue), vis, log)
         IN  FloodLoop(m, r.queue, r.visited, r.pushed)

RECURSIVE FloodLoopLate(_, _, _, _)
FloodLoopLate(m, queue, vis, log) ==
    IF queue = <<>>
    THEN [visited |-> vis, pushed |-> log]
    ELSE LET p == Head(queue)
             r == FloodVisitLate(m, FloodNeighbours(p), Tail(queue),
                                 [vis EXCEPT ![p.y][p.x] = TRUE], log)
         IN  FloodLoopLate(m, r.queue, r.visited, r.pushed)

FloodFillMarkOnPop(m, sx, sy, vis) ==
    FloodLoopLate(m, <<Pt(sx, sy)>>, [vis EXCEPT ![sy][sx] = TRUE], <<Pt(sx, sy)>>)

\* floodFillVisited(mask, startX, startY, visited): the visited grid it leaves, and
\* every entry the queue ever held
floodFillVisited(m, sx, sy, vis) ==
    FloodLoop(m, <<Pt(sx, sy)>>, [vis EXCEPT ![sy][sx] = TRUE], <<Pt(sx, sy)>>)

\* the clockwise scan taking any neighbour in bounds, whatever its mask value
FoundOffsetsAnyValue(m, x, y, bt) ==
    {i \in 0 .. 7 :
        LET offset == DIRECTIONS[((bt + i) % 8) + 1]
            nx == x + offset.dx
            ny == y + offset.dy
        IN  nx >= 0 /\ ny >= 0 /\ nx < GridW /\ ny < GridH}

\* the clockwise scan of mooreNeighborTrace: the offsets i in 0..7 whose neighbour
\* (backtrackDir + i) % 8 of (x, y) is in bounds and foreground
FoundOffsets(m, x, y, bt) ==
    {i \in 0 .. 7 :
        LET offset == DIRECTIONS[((bt + i) % 8) + 1]
            nx == x + offset.dx
            ny == y + offset.dy
        IN  nx >= 0 /\ ny >= 0 /\ nx < GridW /\ ny < GridH /\ m[ny][nx] = 1}

MinOf(S) == CHOOSE i \in S : \A j \in S : i <= j

\* the masks traced: sparse or dense ones, with at most MaxMinorityPixels pixels of the
\* rarer value (every mask of the grid while GridW * GridH <= 2 * MaxMinorityPixels + 1)
TraceInputs ==
    mask \in {MaskOf(S) : S \in {T \in SUBSET Pixels :
                                   \/ Cardinality(T) <= MaxMinorityPixels
                                   \/ Cardinality(Pixels \ T) <= MaxMinorityPixels}}

TraceInit ==
    /\ TraceInputs
    /\ visited = NoneVisited
    /\ contours = <<>>
    /\ scanIdx = 0
    /\ startX = 0 /\ startY = 0
    /\ cx = 0 /\ cy = 0
    /\ backtrackDir = 6
    /\ loopCount = 0
    /\ contour = <<>>
    /\ walkEnd = "none"
    /\ walkEnds = <<>>
    /\ pushed = <<>>
    /\ tpc = "scan"

TraceIdle ==
    /\ visited = NoMask
    /\ contours = <<>>
    /\ scanIdx = 0
    /\ startX = 0 /\ startY = 0
    /\ cx = 0 /\ cy = 0
    /\ backtrackDir = 0
    /\ loopCount = 0
    /\ contour = <<>>
    /\ walkEnd = "none"
    /\ walkEnds = <<>>
    /\ pushed = <<>>
    /\ tpc = "idle"

\* The row-major scan of traceContours up to the next region start, where
\* mooreNeighborTrace(mask, x, y, visited, 6) begins (its statements before the loop).
TraceScan ==
    /\ tpc = "scan"
    /\ LET starts == {k \in scanIdx .. (GridW * GridH - 1) : IsRegionStart(mask, visited, k)}
       IN  /\ starts # {}
           /\ \E k \in {MinOf(starts)} :
                  /\ scanIdx' = k
                  /\ startX' = k % GridW
                  /\ startY' = k \div GridW
                  /\ cx' = k % GridW
                  /\ cy' = k \div GridW
                  /\ contour' = <<Pt(k % GridW, k \div GridW)>>
    /\ backtrackDir' = 6
    /\ loopCount' = 0
    /\ pushed' = <<>>               \* the queue of the last flood fill is gone
    /\ tpc' = "walk"
    /\ UNCHANGED <<quantizeVars, layers, mainVars, points, simplifyVars, fitVars, mask, dilateVars, visited, contours, walkEnd, walkEnds>>

\* The scan runs off the grid: return contours.
TraceReturn ==
    /\ tpc = "scan"
    /\ \A k \in scanIdx .. (GridW * GridH - 1) : ~IsRegionStart(mask, visited, k)
    /\ scanIdx' = GridW * GridH
    /\ tpc' = "done"
    /\ UNCHANGED <<quantizeVars, layers, mainVars, points, simplifyVars, fitVars, mask, dilateVars, visited, contours, startX, startY, cx, cy,
                   backtrackDir, loopCount, contour, walkEnd, walkEnds, pushed>>

\* One iteration of the while (true) of mooreNeighborTrace, without the cap.
WalkStepNoCap ==
    /\ tpc = "walk"
    /\ loopCount' = loopCount + 1
    /\ LET found == FoundOffsets(mask, cx, cy, backtrackDir)
       IN  IF found = {}
           THEN /\ walkEnd' = "isolated"
                /\ tpc' = "flood"
                /\ UNCHANGED <<cx, cy, backtrackDir, contour>>
           ELSE \E checkDir \in {(backtrackDir + MinOf(found)) % 8} :
                   /\ cx' = cx + DIRECTIONS[checkDir + 1].dx
                   /\ cy' = cy + DIRECTIONS[checkDir + 1].dy
                   /\ backtrackDir' = (checkDir + 7) % 8
                   /\ IF cx' = startX /\ cy' = startY
                      THEN /\ walkEnd' = "closed"
                           /\ tpc' = "flood"
                           /\ UNCHANGED contour
                      ELSE /\ contour' = Append(contour, Pt(cx', cy'))
                           /\ UNCHANGED <<walkEnd, tpc>>
    /\ UNCHANGED <<quantizeVars, layers, mainVars, points, simplifyVars, fitVars, mask, dilateVars, visited, contours, scanIdx, startX, startY,
                   walkEnds, pushed>>

\* One iteration of the while (true) of mooreNeighborTrace.
WalkStep ==
    /\ tpc = "walk"
    /\ loopCount' = loopCount + 1
    /\ IF loopCount + 1 > MAX_LOOP
       THEN /\ walkEnd' = "cap"
            /\ tpc' = "flood"
            /\ UNCHANGED <<cx, cy, backtrackDir, contour>>
       ELSE LET found == FoundOffsets(mask, cx, cy, backtrackDir)
            IN  IF found = {}
                THEN /\ walkEnd' = "isolated"
                     /\ tpc' = "flood"
                     /\ UNCHANGED <<cx, cy, backtrackDir, contour>>
                ELSE \E checkDir \in {(backtrackDir + MinOf(found)) % 8} :
                        /\ cx' = cx + DIRECTIONS[checkDir + 1].dx
                        /\ cy' = cy + DIRECTIONS[checkDir + 1].dy
                        /\ backtrackDir' = (checkDir + 7) % 8
                        /\ IF cx' = startX /\ cy' = startY
                           THEN /\ walkEnd' = "closed"
                                /\ tpc' = "flood"
                                /\ UNCHANGED contour
                           ELSE /\ contour' = Append(contour, Pt(cx', cy'))
                                /\ UNCHANGED <<walkEnd, tpc>>
    /\ UNCHANGED <<quantizeVars, layers, mainVars, points, simplifyVars, fitVars, mask, dilateVars, visited, contours, scanIdx, startX, startY,
                   walkEnds, pushed>>

\* Back in traceContours: push the contour, flood-fill the region, the scan moves on.
TraceFlood ==
    /\ tpc = "flood"
    /\ IF Len(contour) > 0
       THEN /\ contours' = Append(contours, [points |-> contour, isHole |-> FALSE])
            /\ walkEnds' = Append(walkEnds, walkEnd)
       ELSE UNCHANGED <<contours, walkEnds>>
    /\ \E r \in {floodFillVisited(mask, startX, startY, visited)} :
          /\ visited' = r.visited
          /\ pushed' = r.pushed
    /\ scanIdx' = scanIdx + 1
    /\ tpc' = "scan"
    /\ UNCHANGED <<quantizeVars, layers, mainVars, points, simplifyVars, fitVars, mask, dilateVars, startX, startY, cx, cy, backtrackDir, loopCount,
                   contour, walkEnd>>

TraceNext ==
    \/ TraceScan
    \/ TraceReturn
    \/ WalkStep
    \/ TraceFlood

(***************************************************************************)
(* simplifyPath (Douglas-Peucker) and perpendicularDistance.               *)
(*                                                                         *)
(* A distance numerator / Math.sqrt(denSq) is kept as the pair of its      *)
(* integer numerator (>= 0) and the integer under the root, and compared   *)
(* by cross-multiplying squares.                                           *)
(***************************************************************************)
PointSet == {Pt(x, y) : x \in 0 .. MaxCoord, y \in 0 .. (MaxCoord \div 2)}

PointLists == UNION {[1 .. n -> PointSet] : n \in 0 .. MaxPoints}

Abs(n) == IF n < 0 THEN -n ELSE n

ZeroDistance == [num |-> 0, denSq |-> 1]

\* perpendicularDistance(point, lineStart, lineEnd); 0 when lineStart = lineEnd
perpendicularDistance(point, lineStart, lineEnd) ==
    LET x1 == lineStart.x
        y1 == lineStart.y
        x2 == lineEnd.x
        y2 == lineEnd.y
        numerator == Abs((y2 - y1) * point.x - (x2 - x1) * point.y + x2 * y1 - y2 * x1)
        denSq == (y2 - y1) * (y2 - y1) + (x2 - x1) * (x2 - x1)
    IN  IF denSq = 0 THEN ZeroDistance ELSE [num |-> numerator, denSq |-> denSq]

\* d > e for two distances
DistGreater(d, e) == d.num * d.num * e.denSq > e.num * e.num * d.denSq

\* d > t + 1
DistExceedsByOne(d, t) == t + 1 < 0 \/ d.num * d.num > (t + 1) * (t + 1) * d.denSq

\* d > t for a distance d and a number t (a distance is never negative)
DistExceeds(d, t) == t < 0 \/ d.num * d.num > t * t * d.denSq

\* the for-loop of simplifyPath from index i (1-based) on: the largest distance to
\* the chord first-last among the inner points and the first index that reaches it
RECURSIVE FarthestFrom(_, _, _, _)
FarthestFrom(pts, i, maxDistance, index) ==
    IF i > Len(pts) - 1
    THEN [maxDistance |-> maxDistance, index |-> index]
    ELSE LET d == perpendicularDistance(pts[i], pts[1], pts[Len(pts)])
         IN  IF DistGreater(d, maxDistance)
             THEN FarthestFrom(pts, i + 1, d, i)
             ELSE FarthestFrom(pts, i + 1, maxDistance, index)

\* simplifyPath with the right half cut one point late: points.slice(index + 1)
RECURSIVE SimplifyPathLateSplit(_, _)
SimplifyPathLateSplit(pts, tol) ==
    IF Len(pts) < 3
    THEN pts
    ELSE LET far == FarthestFrom(pts, 2, ZeroDistance, 1)
         IN  IF DistExceeds(far.maxDistance, tol)
             THEN LET leftPath == SimplifyPathLateSplit(SubSeq(pts, 1, far.index), tol)
                      rightPath == SimplifyPathLateSplit(SubSeq(pts, far.index + 1, Len(pts)), tol)
                  IN  SubSeq(leftPath, 1, Len(leftPath) - 1) \o rightPath
             ELSE <<pts[1], pts[Len(pts)]>>

\* simplifyPath merging the halves without dropping the shared point
RECURSIVE SimplifyPathDoubleJoin(_, _)
SimplifyPathDoubleJoin(pts, tol) ==
    IF Len(pts) < 3
    THEN pts
    ELSE LET far == FarthestFrom(pts, 2, ZeroDistance, 1)
         IN  IF DistExceeds(far.maxDistance, tol)
             THEN LET leftPath == SimplifyPathDoubleJoin(SubSeq(pts, 1, far.index), tol)
                      rightPath == SimplifyPathDoubleJoin(SubSeq(pts, far.index, Len(pts)), tol)
                  IN  leftPath \o rightPath
             ELSE <<pts[1], pts[Len(pts)]>>

\* The call simplifyPath(pts, tol) never returns: some run of 3 or more points is
\* split at index 0 (no inner point off the chord, yet 0 > tol), whose right half
\* points.slice(0) is the run itself, so the recursion exhausts the call stack.
RECURSIVE SimplifyOverflows(_, _)
SimplifyOverflows(pts, tol) ==
    /\ Len(pts) >= 3
    /\ LET far == FarthestFrom(pts, 2, ZeroDistance, 1)
       IN  /\ DistExceeds(far.maxDistance, tol)
           /\ \/ far.index = 1
              \/ SimplifyOverflows(SubSeq(pts, 1, far.index), tol)
              \/ SimplifyOverflows(SubSeq(pts, far.index, Len(pts)), tol)

\* simplifyPath(points, tolerance), where the call returns.  Indices are 1-based:
\* the source's index is far.index - 1, slice(0, index + 1) is
\* SubSeq(pts, 1, far.index) and slice(index) is SubSeq(pts, far.index, Len(pts)).
RECURSIVE simplifyPath(_, _)
simplifyPath(pts, tol) ==
    IF Len(pts) < 3
    THEN pts
    ELSE LET far == FarthestFrom(pts, 2, ZeroDistance, 1)
         IN  IF DistExceeds(far.maxDistance, tol)
             THEN LET leftPath == simplifyPath(SubSeq(pts, 1, far.index), tol)
                      rightPath == simplifyPath(SubSeq(pts, far.index, Len(pts)), tol)
                  IN  SubSeq(leftPath, 1, Len(leftPath) - 1) \o rightPath
             ELSE <<pts[1], pts[Len(pts)]>>

\* the positions in pts (counted from `offset`) of the points simplifyPath(pts, tol)
\* returns, in order
RECURSIVE KeptIndices(_, _, _)
KeptIndices(pts, tol, offset) ==
    IF Len(pts) < 3
    THEN [k \in 1 .. Len(pts) |-> offset + k]
    ELSE LET far == FarthestFrom(pts, 2, ZeroDistance, 1)
         IN  IF DistExceeds(far.maxDistance, tol)
             THEN LET leftPath == KeptIndices(SubSeq(pts, 1, far.index), tol, offset)
                      rightPath == KeptIndices(SubSeq(pts, far.index, Len(pts)), tol,
                                               offset + far.index - 1)
                  IN  SubSeq(leftPath, 1, Len(leftPath) - 1) \o rightPath
             ELSE <<offset + 1, offset + Len(pts)>>

SimplifyInputs ==
    /\ points \in PointLists
    /\ tolerance \in (-MaxTolerance) .. MaxTolerance

SimplifyInit ==
    /\ SimplifyInputs
    /\ simplified = <<>>
    /\ resimplified = <<>>
    /\ spc = "in"

SimplifyIdle ==
    /\ tolerance = 0
    /\ simplified = <<>>
    /\ resimplified = <<>>
    /\ spc = "idle"

\* simplified = simplifyPath(points, tolerance), or the call throws
Simplify ==
    /\ spc = "in"
    /\ IF SimplifyOverflows(points, tolerance)
       THEN /\ spc' = "threw"
            /\ UNCHANGED simplified
       ELSE /\ simplified' = simplifyPath(points, tolerance)
            /\ spc' = "once"
    /\ UNCHANGED <<quantizeVars, layers, mainVars, mask, dilateVars, traceVars, fitVars, points, tolerance, resimplified>>

\* simplifyPath applied to its own result, same tolerance
SimplifyAgain ==
    /\ spc = "once"
    /\ IF SimplifyOverflows(simplified, tolerance)
       THEN /\ spc' = "threw"
            /\ UNCHANGED resimplified
       ELSE /\ resimplified' = simplifyPath(simplified, tolerance)
            /\ spc' = "twice"
    /\ UNCHANGED <<quantizeVars, layers, mainVars, mask, dilateVars, traceVars, fitVars, points, tolerance, simplified>>

SimplifyNext ==
    \/ Simplify
    \/ SimplifyAgain

(***************************************************************************)
(* fitCurves, filterDuplicates, isCorner, safeNormalize and distance.      *)
(*                                                                         *)
(* Coordinates are integers and every comparison of the source is decided  *)
(* exactly on squares.  A vector v / |v| is kept as the record of v and    *)
(* |v|^2 (field lenSq); a handle length dist * f is kept as the percentage *)
(* 100 * f.  The control points are p1 = p0 + tangent1 * len1 and          *)
(* p2 = p3 + tangent2 * len2 with len = dist * lenPct / 100.               *)
(***************************************************************************)
FitThreshold == 1       \* filterDuplicates(points, 1.0)
CornerPct == 10         \* dist * 0.1
SmoothPct == 33         \* dist * 0.33
MaxLenPct == 40         \* maxLen = dist * 0.4

\* distance(p1, p2) squared
DistanceSq(p1, p2) == (p2.x - p1.x) * (p2.x - p1.x) + (p2.y - p1.y) * (p2.y - p1.y)

\* distance(p1, p2) < 2
DistanceBelowTwo(p1, p2) == DistanceSq(p1, p2) < 4

\* distance(p1, p2) < 0.1
DistanceBelowTenth(p1, p2) == 100 * DistanceSq(p1, p2) < 1

\* an absent point (null / undefined)
NoPoint == [absent |-> TRUE]

IsAbsent(p) == "absent" \in DOMAIN p

\* safeNormalize without the division: the vector itself
SafeNormalizeRaw(v) == [x |-> v.x, y |-> v.y, lenSq |-> 1]

\* safeNormalize(v): v / |v|, the zero vector when |v| < 1e-9
safeNormalize(v) ==
    LET lenSq == v.x * v.x + v.y * v.y
    IN  IF lenSq = 0
        THEN [x |-> 0, y |-> 0, lenSq |-> 1]
        ELSE [x |-> v.x, y |-> v.y, lenSq |-> lenSq]

\* isCorner(prev, curr, next); dot < 0.2 is decided as
\* 5 * (v1 . v2) < |v1| * |v2| on the unnormalised vectors
isCorner(prev, curr, next) ==
    IF IsAbsent(prev) \/ IsAbsent(next) THEN TRUE
    ELSE IF DistanceBelowTenth(prev, curr) \/ DistanceBelowTenth(curr, next) THEN FALSE
    ELSE LET v1 == safeNormalize([x |-> curr.x - prev.x, y |-> curr.y - prev.y])
             v2 == safeNormalize([x |-> next.x - curr.x, y |-> next.y - curr.y])
             dotNum == v1.x * v2.x + v1.y * v2.y
         IN  dotNum <= 0 \/ 25 * dotNum * dotNum < v1.lenSq * v2.lenSq

\* the for-loop of filterDuplicates from index i (1-based) on
RECURSIVE FilterFrom(_, _, _, _)
FilterFrom(pts, i, threshold, kept) ==
    IF i > Len(pts) THEN kept
    ELSE LET last == kept[Len(kept)]
             curr == pts[i]
         IN  IF DistanceSq(last, curr) > threshold * threshold
             THEN FilterFrom(pts, i + 1, threshold, Append(kept, curr))
             ELSE FilterFrom(pts, i + 1, threshold, kept)

\* filterDuplicates(points, threshold), threshold >= 0
filterDuplicates(pts, threshold) ==
    IF Len(pts) < 2 THEN pts
    ELSE LET kept == FilterFrom(pts, 2, threshold, <<pts[1]>>)
         IN  IF /\ Len(pts) > 2
                /\ pts[1].x = pts[Len(pts)].x
                /\ pts[1].y = pts[Len(pts)].y
                /\ DistanceSq(kept[1], kept[Len(kept)]) > threshold * threshold
             THEN Append(kept, kept[1])
             ELSE kept

Min(a, b) == IF a < b THEN a ELSE b

\* one iteration of the for-loop of fitCurves: the curve from clean[i] to
\* clean[i + 1] (1-based), or nothing when the two points coincide
FitSegment(clean, i, isClosed) ==
    LET p0 == clean[i]
        p3 == clean[i + 1]
        prev == IF i = 1
                THEN (IF isClosed THEN clean[Len(clean) - 1] ELSE p0)
                ELSE clean[i - 1]
        next == IF i + 1 = Len(clean)
                THEN (IF isClosed THEN clean[2] ELSE p3)
                ELSE clean[i + 2]
        p0IsCorner == isCorner(prev, p0, p3)
        p3IsCorner == isCorner(p0, p3, next)
        tangent1 == IF p0IsCorner
                    THEN safeNormalize([x |-> p3.x - p0.x, y |-> p3.y - p0.y])
                    ELSE safeNormalize([x |-> p3.x - prev.x, y |-> p3.y - prev.y])
        tangent2 == IF p3IsCorner
                    THEN safeNormalize([x |-> p0.x - p3.x, y |-> p0.y - p3.y])
                    ELSE safeNormalize([x |-> p0.x - next.x, y |-> p0.y - next.y])
        len1Pct == IF p0IsCorner THEN Min(CornerPct, MaxLenPct) ELSE Min(SmoothPct, MaxLenPct)
        len2Pct == IF p3IsCorner THEN Min(CornerPct, MaxLenPct) ELSE Min(SmoothPct, MaxLenPct)
    IN  IF DistanceBelowTenth(p0, p3)
        THEN <<>>
        ELSE <<[p0 |-> p0, p3 |-> p3, prev |-> prev, next |-> next,
                p0IsCorner |-> p0IsCorner, p3IsCorner |-> p3IsCorner,
                tangent1 |-> tangent1, tangent2 |-> tangent2,
                len1Pct |-> len1Pct, len2Pct |-> len2Pct]>>

\* the loop of fitCurves advancing by two points (i += 2)
RECURSIVE FitFromEveryOther(_, _, _)
FitFromEveryOther(clean, i, isClosed) ==
    IF i > Len(clean) - 1 THEN <<>>
    ELSE FitSegment(clean, i, isClosed) \o FitFromEveryOther(clean, i + 2, isClosed)

\* the for-loop of fitCurves from index i (1-based) on
RECURSIVE FitFrom(_, _, _)
FitFrom(clean, i, isClosed) ==
    IF i > Len(clean) - 1 THEN <<>>
    ELSE FitSegment(clean, i, isClosed) \o FitFrom(clean, i + 1, isClosed)

\* fitCurves after the sanitization step, on cleanPoints
FitClean(clean) ==
    IF Len(clean) < 2 THEN <<>>
    ELSE LET isClosed == /\ clean[1].x = clean[Len(clean)].x
                         /\ clean[1].y = clean[Len(clean)].y
         IN  FitFrom(clean, 1, isClosed)

\* a strip wide enough for three points in a row more than the threshold apart
FitPointSet == {Pt(x, y) : x \in 0 .. FitMaxCoord, y \in 0 .. (FitMaxCoord \div 3)}

FitPointLists == UNION {[1 .. n -> FitPointSet] : n \in 0 .. MaxPoints}

FitInputs == points \in FitPointLists

FitInit ==
    /\ FitInputs
    /\ cleanPoints = <<>>
    /\ curves = <<>>
    /\ fpc = "in"

FitIdle ==
    /\ cleanPoints = <<>>
    /\ curves = <<>>
    /\ fpc = "idle"

\* const cleanPoints = filterDuplicates(points, 1.0)
FitFilter ==
    /\ fpc = "in"
    /\ cleanPoints' = filterDuplicates(points, FitThreshold)
    /\ fpc' = "filtered"
    /\ UNCHANGED <<quantizeVars, layers, mainVars, mask, dilateVars, traceVars, points, simplifyVars, curves>>

\* the rest of fitCurves: the loop over cleanPoints and the return
FitLoop ==
    /\ fpc = "filtered"
    /\ curves' = FitClean(cleanPoints)
    /\ fpc' = "fitted"
    /\ UNCHANGED <<quantizeVars, layers, mainVars, mask, dilateVars, traceVars, points, simplifyVars, cleanPoints>>

FitNext ==
    \/ FitFilter
    \/ FitLoop

(***************************************************************************)
(* quantizeImage: k-means over the colours of the visible pixels.          *)
(*                                                                         *)
(* The flat byte array pixels[i * 4 + k] is kept as one record per pixel   *)
(* index i.  Center and cluster indices are 1-based (the source's c + 1).  *)
(* Math.random is a free choice: the first seeding loop may stop at any    *)
(* number of distinct colours (its 1000 attempts may all repeat a colour   *)
(* already seen) and the second loop fills up with arbitrary picks, so     *)
(* every list of colorCount colours of visible pixels can come out.        *)
(***************************************************************************)
AlphaThreshold == 20    \* a > 20
iterations == 3         \* const iterations = 3

ImgW == MaxVisible \div 2

ImgH == MaxVisible \div ImgW

totalPixels == ImgW * ImgH

Transparent == [r |-> 0, g |-> 0, b |-> 0, a |-> AlphaThreshold]

Visible(v) == [r |-> v, g |-> v, b |-> v, a |-> AlphaThreshold + 1]

IsVisible(p) == p.a > AlphaThreshold

\* validPixelIndices, ascending
validPixelIndices(px) ==
    SelectSeq([k \in 1 .. totalPixels |-> k - 1], LAMBDA i : IsVisible(px[i]))

\* (r - cent.r) ** 2 + (g - cent.g) ** 2 + (b - cent.b) ** 2
ColorDist(p, cent) ==
    (p.r - cent.r) * (p.r - cent.r) + (p.g - cent.g) * (p.g - cent.g)
        + (p.b - cent.b) * (p.b - cent.b)

\* a pixel is pushed to the last center at the smallest distance (dist <= minDist)
\* of all but the first center
BestCenterSkippingFirst(p, cents) ==
    CHOOSE c \in 1 .. Len(cents) :
        /\ c > 1 \/ Len(cents) = 1
        /\ \A d \in 2 .. Len(cents) : ColorDist(p, cents[d]) >= ColorDist(p, cents[c])
        /\ \A d \in c + 1 .. Len(cents) : ColorDist(p, cents[d]) > ColorDist(p, cents[c])

\* bestCenter: the first center at the smallest distance (dist < minDist)
bestCenter(p, cents) ==
    CHOOSE c \in 1 .. Len(cents) :
        \A d \in 1 .. Len(cents) :
            /\ d < c => ColorDist(p, cents[d]) > ColorDist(p, cents[c])
            /\ d >= c => ColorDist(p, cents[d]) >= ColorDist(p, cents[c])

\* a pixel joins every cluster whose center is at the smallest distance
AssignedToEveryNearest(p, cents, c) ==
    \A d \in 1 .. Len(cents) : ColorDist(p, cents[c]) <= ColorDist(p, cents[d])

\* the pixel is pushed to clusters[c]
AssignedTo(p, cents, c) == bestCenter(p, cents) = c

RECURSIVE SumOver(_, _, _)
SumOver(px, idxs, channel) ==
    IF idxs = <<>> THEN 0
    ELSE px[Head(idxs)][channel] + SumOver(px, Tail(idxs), channel)

\* a cluster holding the pixels of the indices `members`
ClusterFrom(px, members) ==
    [points |-> [k \in 1 .. Len(members) |->
                    Pt(members[k] % ImgW, members[k] \div ImgW)],
     sumR |-> SumOver(px, members, "r"),
     sumG |-> SumOver(px, members, "g"),
     sumB |-> SumOver(px, members, "b")]

\* clusters[c] after the assignment loop
ClusterOf(px, valid, cents, c) ==
    ClusterFrom(px, SelectSeq(valid, LAMBDA i : AssignedTo(px[i], cents, c)))

\* centers[c] after the re-calculation loop
Recalculated(center, cluster) ==
    LET count == Len(cluster.points)
    IN  IF count > 0
        THEN [r |-> cluster.sumR \div count,
              g |-> cluster.sumG \div count,
              b |-> cluster.sumB \div count]
        ELSE center

\* the output without the filter on empty clusters
FormatOutputUnfiltered(cents, clus) ==
    [index \in 1 .. Len(clus) |->
        [color |-> cents[index], points |-> clus[index].points]]

\* results: clusters.map(...).filter(c => c.points.length > 0)
FormatOutput(cents, clus) ==
    SelectSeq([index \in 1 .. Len(clus) |->
                  [color |-> cents[index], points |-> clus[index].points]],
              LAMBDA c : Len(c.points) > 0)

\* the colours the initialisation can pick
VisibleColors(px) ==
    {[r |-> px[i].r, g |-> px[i].g, b |-> px[i].b] : i \in {j \in DOMAIN px : IsVisible(px[j])}}

\* pixel buffers of ImgW x ImgH pixels, at most MaxVisible of them visible; the
\* visible pixels are grey and listed from dark to light
PixelBuffers ==
    {px \in [0 .. totalPixels - 1 -> {Transparent} \cup {Visible(v) : v \in 0 .. MaxChannel}] :
        /\ Cardinality({i \in DOMAIN px : IsVisible(px[i])}) <= MaxVisible
        /\ \A i, j \in DOMAIN px :
              (i < j /\ IsVisible(px[i]) /\ IsVisible(px[j])) => px[i].r <= px[j].r}

QuantizeInit ==
    /\ pixels \in PixelBuffers
    /\ colorCount \in 1 .. MaxColorCount
    /\ centers = <<>>
    /\ clusters = <<>>
    /\ assignedBy = <<>>
    /\ iter = 0
    /\ layers = <<>>
    /\ qpc = "in"

QuantizeIdle ==
    /\ pixels = <<>>
    /\ colorCount = 0
    /\ centers = <<>>
    /\ clusters = <<>>
    /\ assignedBy = <<>>
    /\ iter = 0
    /\ qpc = "idle"

LayersIdle == layers = <<>>

\* no visible pixel: return []
QuantizeEmpty ==
    /\ qpc = "in"
    /\ validPixelIndices(pixels) = <<>>
    /\ layers' = <<>>
    /\ qpc' = "returned"
    /\ mpc' = "loop"
    /\ UNCHANGED <<mask, dilateVars, traceVars, points, simplifyVars, fitVars,
                   pixels, colorCount, centers, clusters, assignedBy, iter,
                   traced, layerIdx, allShapes>>

\* the two seeding loops: colorCount centers picked among the visible colours
QuantizeSeed ==
    /\ qpc = "in"
    /\ validPixelIndices(pixels) # <<>>
    /\ centers' \in [1 .. colorCount -> VisibleColors(pixels)]
    /\ qpc' = "kmeans"
    /\ UNCHANGED <<mask, dilateVars, traceVars, points, simplifyVars, fitVars,
                   pixels, colorCount, clusters, assignedBy, iter, layers, mainVars>>

\* one iteration of the k-means loop: reset, assign, re-calculate
KMeansIteration ==
    /\ qpc = "kmeans"
    /\ iter < iterations
    /\ \E valid \in {validPixelIndices(pixels)} :
         \E assigned \in {[c \in 1 .. colorCount |-> ClusterOf(pixels, valid, centers, c)]} :
            /\ clusters' = assigned
            /\ assignedBy' = centers
            /\ centers' = [c \in 1 .. colorCount |-> Recalculated(centers[c], assigned[c])]
    /\ iter' = iter + 1
    /\ UNCHANGED <<mask, dilateVars, traceVars, points, simplifyVars, fitVars,
                   pixels, colorCount, layers, qpc, mainVars>>

\* format the output and return
QuantizeReturn ==
    /\ qpc = "kmeans"
    /\ iter = iterations
    /\ layers' = FormatOutput(centers, clusters)
    /\ qpc' = "returned"
    /\ mpc' = "loop"
    /\ UNCHANGED <<mask, dilateVars, traceVars, points, simplifyVars, fitVars,
                   pixels, colorCount, centers, clusters, assignedBy, iter,
                   traced, layerIdx, allShapes>>

(***************************************************************************)
(* main: the layer loop and the final sort.                                *)
(*                                                                         *)
(* What layerToMask, dilateHybrid and traceContours return for a layer is  *)
(* an input here (traced[i]); those stages have their own specifications.  *)
(* Areas are kept doubled (area2 = 2 * area), so that they stay integers.  *)
(* A shape keeps the contour's points in place of the curves fitted to     *)
(* them.                                                                   *)
(***************************************************************************)
MinArea == 10           \* CONFIG.minArea

\* the sum of the shoelace loop from index i (1-based) on
RECURSIVE ShoelaceFrom(_, _)
ShoelaceFrom(pts, i) ==
    IF i > Len(pts) THEN 0
    ELSE LET j == (i % Len(pts)) + 1
         IN  pts[i].x * pts[j].y - pts[j].x * pts[i].y + ShoelaceFrom(pts, i + 1)

\* 2 * getPolygonArea(points)
getPolygonArea2(pts) == Abs(ShoelaceFrom(pts, 1))

\* the shape main builds from a contour of a layer
ShapeOf(cont, layer) ==
    [points |-> cont.points, fillColor |-> layer.color,
     area2 |-> getPolygonArea2(cont.points), isHole |-> cont.isHole]

\* layerShapes without the minimum-area filter
LayerShapesUnfiltered(layer, conts) ==
    [k \in 1 .. Len(conts) |-> ShapeOf(conts[k], layer)]

\* layerShapes: contours.map(...).filter(c => c !== null); area < minArea gives null
layerShapes(layer, conts) ==
    SelectSeq([k \in 1 .. Len(conts) |-> ShapeOf(conts[k], layer)],
              LAMBDA sh : ~(sh.area2 < 2 * MinArea))

\* insertion behind every shape the comparator does not put after the new one
RECURSIVE InsertAscending(_, _)
InsertAscending(sh, sorted) ==
    IF sorted = <<>> THEN <<sh>>
    ELSE IF Head(sorted).area2 <= sh.area2
         THEN <<Head(sorted)>> \o InsertAscending(sh, Tail(sorted))
         ELSE <<sh>> \o sorted

RECURSIVE InsertByArea(_, _)
InsertByArea(sh, sorted) ==
    IF sorted = <<>> THEN <<sh>>
    ELSE IF Head(sorted).area2 >= sh.area2
         THEN <<Head(sorted)>> \o InsertByArea(sh, Tail(sorted))
         ELSE <<sh>> \o sorted

\* sort with the comparator (a, b) => a.area - b.area
RECURSIVE SortAscending(_)
SortAscending(shapes) ==
    IF shapes = <<>> THEN <<>>
    ELSE InsertAscending(shapes[Len(shapes)], SortAscending(SubSeq(shapes, 1, Len(shapes) - 1)))

\* allShapes.sort((a, b) => b.area - a.area): a stable sort, largest area first
RECURSIVE SortByArea(_)
SortByArea(shapes) ==
    IF shapes = <<>> THEN <<>>
    ELSE InsertByArea(shapes[Len(shapes)], SortByArea(SubSeq(shapes, 1, Len(shapes) - 1)))

\* a rectangular contour of width w
Rect(w) == [points |-> <<Pt(0, 0), Pt(w, 0), Pt(w, RectH), Pt(0, RectH)>>, isHole |-> FALSE]

FlatContourLists == UNION {[1 .. n -> {Rect(w) : w \in 1 .. MaxContours}] : n \in 0 .. MaxContours}

\* the ways to cut a list of len contours into n consecutive runs
Cuts(n, len) ==
    {c \in [1 .. n -> 0 .. len] :
        /\ n > 0 => c[n] = len
        /\ \A i \in 1 .. n - 1 : c[i] <= c[i + 1]}

\* the contours of n layers, at most MaxContours together
TracedChoices(n) ==
    IF n = 0 THEN {<<>>}
    ELSE UNION {{[i \in 1 .. n |-> SubSeq(flat, IF i = 1 THEN 1 ELSE c[i - 1] + 1, c[i])] :
                    c \in Cuts(n, Len(flat))} : flat \in FlatContourLists}

\* n layers of distinct colours
LayerLists == {[i \in 1 .. n |-> [color |-> [r |-> i, g |-> i, b |-> i], points |-> <<Pt(0, 0)>>]] :
                  n \in 0 .. MaxColorCount}

\* main after quantizeImage has returned `layers`
MainInit ==
    /\ layers \in LayerLists
    /\ traced \in TracedChoices(Len(layers))
    /\ layerIdx = 0
    /\ allShapes = <<>>
    /\ mpc = "loop"

\* main before quantizeImage returns; every layer will trace to a small and a large contour
MainCallsQuantize ==
    /\ traced = [i \in 1 .. MaxColorCount |-> <<Rect(1), Rect(MaxContours)>>]
    /\ layerIdx = 0
    /\ allShapes = <<>>
    /\ mpc = "quantize"

MainIdle ==
    /\ traced = <<>>
    /\ layerIdx = 0
    /\ allShapes = <<>>
    /\ mpc = "idle"

\* the call to quantizeImage has returned
QuantizeReturned ==
    /\ pixels = <<>>
    /\ colorCount = 0
    /\ centers = <<>>
    /\ clusters = <<>>
    /\ assignedBy = <<>>
    /\ iter = 0
    /\ qpc = "returned"

\* one iteration of the layer loop
ProcessLayer ==
    /\ mpc = "loop"
    /\ layerIdx < Len(layers)
    /\ allShapes' = allShapes \o layerShapes(layers[layerIdx + 1], traced[layerIdx + 1])
    /\ layerIdx' = layerIdx + 1
    /\ UNCHANGED <<mask, dilateVars, traceVars, points, simplifyVars, fitVars, quantizeVars,
                   layers, traced, mpc>>

\* allShapes.sort(...), after the loop
SortShapes ==
    /\ mpc = "loop"
    /\ layerIdx = Len(layers)
    /\ allShapes' = SortByArea(allShapes)
    /\ mpc' = "done"
    /\ UNCHANGED <<mask, dilateVars, traceVars, points, simplifyVars, fitVars, quantizeVars,
                   layers, traced, layerIdx>>

MainNext ==
    \/ ProcessLayer
    \/ SortShapes

(***************************************************************************)
(* Specifications.                                                         *)
(***************************************************************************)
PointsIdle == points = <<>>

MaskIdle == mask = NoMask

InitDilate == DilateInit /\ TraceIdle /\ PointsIdle /\ SimplifyIdle /\ FitIdle /\ QuantizeIdle /\ LayersIdle /\ MainIdle

SpecDilate == InitDilate /\ [][DilateNext]_vars

InitTrace == TraceInit /\ DilateIdle /\ PointsIdle /\ SimplifyIdle /\ FitIdle /\ QuantizeIdle /\ LayersIdle /\ MainIdle

SpecTrace == InitTrace /\ [][TraceNext]_vars

InitSimplify == SimplifyInit /\ MaskIdle /\ DilateIdle /\ TraceIdle /\ FitIdle /\ QuantizeIdle /\ LayersIdle /\ MainIdle

SpecSimplify == InitSimplify /\ [][SimplifyNext]_vars

InitFit == FitInit /\ MaskIdle /\ DilateIdle /\ TraceIdle /\ SimplifyIdle /\ QuantizeIdle /\ LayersIdle /\ MainIdle

SpecFit == InitFit /\ [][FitNext]_vars

StagesIdle == MaskIdle /\ DilateIdle /\ TraceIdle /\ PointsIdle /\ SimplifyIdle /\ FitIdle

QuantizeNext ==
    \/ QuantizeEmpty
    \/ QuantizeSeed
    \/ KMeansIteration
    \/ QuantizeReturn
    \/ ProcessLayer
    \/ SortShapes

InitQuantize == QuantizeInit /\ MainCallsQuantize /\ StagesIdle

SpecQuantize == InitQuantize /\ [][QuantizeNext]_vars

InitMain == MainInit /\ QuantizeReturned /\ StagesIdle

SpecMain == InitMain /\ [][MainNext]_vars

(***************************************************************************)
(* Properties of dilateHybrid (under SpecDilate).                          *)
(***************************************************************************)
Subset(a, b) == \A p \in Pixels : a[p[2]][p[1]] = 1 => b[p[2]][p[1]] = 1

\* C1 as stated: for every mask, coverage mask and pass counts, the mask that
\* dilateHybrid returns has a 1 wherever the input mask has a 1.
C1_OutputSupersetOfInput ==
    dpc = "done" => Subset(mask, result)

\* C1 amended: a pixel that is 1 in the input mask is 1 in the returned mask provided
\* no coverage-bounded pass ran (smartPasses = 0) or the coverage mask is 1 at that
\* pixel; in particular the output is a superset of every input mask that lies
\* inside the coverage mask.
C1_OutputSupersetWithinCoverage ==
    dpc = "done" =>
        \A p \in Pixels :
            (mask[p[2]][p[1]] = 1 /\ (smartPasses = 0 \/ coverageMask[p[2]][p[1]] = 1))
                => result[p[2]][p[1]] = 1

\* C1 witness: both loops ran on a non-empty mask inside a coverage mask with a
\* hole, and the returned mask is strictly larger than the input.
C1_Witness ==
    /\ dpc = "done"
    /\ unconditionalPasses >= 1
    /\ smartPasses >= 1
    /\ Foreground(mask) # {}
    /\ Subset(mask, coverageMask)
    /\ Foreground(coverageMask) # Pixels
    /\ result # mask

\* C2: after a coverage-bounded pass (dilateOnce(m, C), and so the mask dilateHybrid
\* returns when smartPasses >= 1, whatever the unconditional passes did before) the
\* mask is 1 only where the coverage mask is 1.
C2_BoundedPassStaysInCoverage ==
    ((dpc = "smart" /\ passIdx >= 1) \/ (dpc = "done" /\ smartPasses >= 1))
        => Subset(result, coverageMask)

\* C2 witness: the unconditional pass had set a pixel outside the coverage mask and
\* the coverage-bounded pass that followed returned a mask without it.
C2_Witness ==
    /\ dpc = "done"
    /\ unconditionalPasses >= 1
    /\ smartPasses >= 1
    /\ \E p \in Pixels :
          /\ coverageMask[p[2]][p[1]] = 0
          /\ dilateOnce(mask, NoMask)[p[2]][p[1]] = 1
          /\ result[p[2]][p[1]] = 0

(***************************************************************************)
(* Properties of traceContours (under SpecTrace).                          *)
(***************************************************************************)
\* the foreground pixels 8-adjacent to a pixel of S
Adjacent8(m, S) ==
    {q \in Foreground(m) : \E p \in S : /\ q[1] - p[1] \in -1 .. 1
                                        /\ q[2] - p[2] \in -1 .. 1}

\* the 8-connected foreground component that holds the pixels of S
RECURSIVE Component8(_, _)
Component8(m, S) ==
    LET T == S \cup Adjacent8(m, S)
    IN  IF T = S THEN S ELSE Component8(m, T)

Components8(m) == {Component8(m, {p}) : p \in Foreground(m)}

\* C3: traceContours returns exactly one contour per 8-connected foreground
\* component, and once a region start has been processed every foreground pixel
\* 8-connected to it is marked visited.
C3_OneContourPer8Component ==
    /\ tpc = "done" => Len(contours) = Cardinality(Components8(mask))
    /\ (tpc = "scan" /\ Len(contours) > 0) =>
          \A q \in Component8(mask, {<<startX, startY>>}) : visited[q[2]][q[1]]

\* C4: a contour whose boundary walk ended by returning to its start pixel is
\* closed: its last point equals its first point.
C4_ClosedWalkRepeatsStart ==
    \A i \in 1 .. Len(contours) :
        walkEnds[i] = "closed" =>
            contours[i].points[Len(contours[i].points)] = contours[i].points[1]

\* a measure of the work traceContours has left: the scan positions still ahead,
\* each worth one region (a walk of at most MAX_LOOP + 1 iterations and a flood fill)
TraceRank ==
    LET region == MAX_LOOP + 4
        ahead == (GridW * GridH - scanIdx) * region
    IN  CASE tpc = "scan"  -> ahead + 1
          [] tpc = "walk"  -> ahead - loopCount
          [] tpc = "flood" -> ahead - (MAX_LOOP + 2)
          [] OTHER         -> 0

NoRepeats(seq) == Cardinality({seq[i] : i \in 1 .. Len(seq)}) = Len(seq)

C5_Bounded ==
    /\ TraceRank >= 0
    /\ loopCount <= MAX_LOOP + 1
    /\ walkEnd \in {"none", "closed", "isolated", "cap"}
    /\ (walkEnd = "cap" /\ tpc # "walk") => loopCount = MAX_LOOP + 1
    /\ tpc = "scan" => (NoRepeats(pushed) /\ ENABLED (TraceScan \/ TraceReturn))
    /\ tpc = "walk" => ENABLED WalkStep
    /\ tpc \in {"scan", "walk", "flood", "done"}       \* "flood": TraceFlood has no other guard
    /\ (tpc = "done" /\ Cardinality(Foreground(mask)) = 1) =>
          (Len(contours) = 1 /\ Len(contours[1].points) >= 1)

\* C5: traceContours terminates on every mask: every step strictly lowers a
\* non-negative measure and a step is possible until the scan is over; a boundary
\* walk ends by closing on its start, by finding no foreground neighbour or at the
\* iteration cap, never running more than MAX_LOOP + 1 loop heads; a flood fill puts
\* no pixel in its queue twice; and a mask with one isolated foreground pixel yields
\* one contour of length >= 1.
C5_TraceTerminates ==
    [][TraceRank' < TraceRank]_vars /\ []C5_Bounded

\* C5 witness: the trace of a mask is over and one of its walks was stopped by the
\* iteration cap, having circled without meeting its start pixel.
C5_Witness ==
    /\ tpc = "done"
    /\ \E i \in 1 .. Len(contours) :
          /\ walkEnds[i] = "cap"
          /\ Len(contours[i].points) = MAX_LOOP + 1

\* pts is a walk over foreground pixels of the grid, each step to a different
\* pixel among the 8 neighbours
IsForegroundWalk(pts) ==
    /\ \A k \in 1 .. Len(pts) :
          /\ pts[k].x \in Cols /\ pts[k].y \in Rows
          /\ mask[pts[k].y][pts[k].x] = 1
    /\ \A k \in 1 .. Len(pts) - 1 :
          /\ pts[k] # pts[k + 1]
          /\ Abs(pts[k + 1].x - pts[k].x) <= 1
          /\ Abs(pts[k + 1].y - pts[k].y) <= 1

\* C19: every contour returned by traceContours consists only of in-bounds
\* foreground pixels, starts at the first unvisited foreground pixel in row-major
\* order, and any two consecutive points of it are distinct 8-neighbours.
C19_ContoursAreForegroundWalks ==
    /\ [](\A i \in 1 .. Len(contours) : IsForegroundWalk(contours[i].points))
    /\ [](tpc \in {"walk", "flood"} =>
            /\ Len(contour) >= 1
            /\ IsForegroundWalk(contour)
            /\ contour[1] = Pt(startX, startY)
            /\ IsRegionStart(mask, visited, startY * GridW + startX)
            /\ \A k \in 0 .. (startY * GridW + startX - 1) :
                  ~IsRegionStart(mask, visited, k))
    /\ [][tpc = "flood" =>
            contours' = Append(contours, [points |-> contour, isHole |-> FALSE])]_vars

\* two contours are returned, the second of three points or more starting at a
\* foreground pixel that is not the first of the mask
C19_Witness ==
    /\ tpc = "done"
    /\ Len(contours) >= 2
    /\ Len(contours[2].points) >= 3


(***************************************************************************)
(* Properties of simplifyPath.                                             *)
(***************************************************************************)
\* sub is obtained from seq by deleting elements (order kept)
RECURSIVE IsSubsequence(_, _)
IsSubsequence(sub, seq) ==
    IF sub = <<>> THEN TRUE
    ELSE IF seq = <<>> THEN FALSE
    ELSE IF Head(sub) = Head(seq)
         THEN IsSubsequence(Tail(sub), Tail(seq))
         ELSE IsSubsequence(sub, Tail(seq))

\* C6: simplifying an already simplified path with the same tolerance changes
\* nothing: simplifyPath(simplifyPath(P, t), t) equals simplifyPath(P, t) point
\* for point, for every P and t on which simplifyPath(P, t) returns; the second
\* call then returns too.
C6_SimplifyIdempotent ==
    /\ spc = "once" => ~SimplifyOverflows(simplified, tolerance)
    /\ spc = "twice" => resimplified = simplified
    /\ spc = "threw" => tolerance < 0

\* a path that was split and lost points, simplified a second time
C6_Witness ==
    /\ spc = "twice"
    /\ Len(simplified) >= 3
    /\ Len(simplified) < Len(points)
    /\ tolerance > 0
    /\ resimplified = simplified

\* C7: the result of simplifyPath is the input with points deleted, in the same
\* order; the first and the last point are always kept; a path of fewer than 3
\* points is returned unchanged.
C7_SimplifyKeepsEndsAndOrder ==
    spc \in {"once", "twice"} =>
        /\ IsSubsequence(simplified, points)
        /\ Len(simplified) <= Len(points)
        /\ Len(points) >= 1 =>
              /\ Len(simplified) >= 1
              /\ simplified[1] = points[1]
              /\ simplified[Len(simplified)] = points[Len(points)]
        /\ Len(points) < 3 => simplified = points

\* a path of 4 points split once: an inner point kept, another dropped
C7_Witness ==
    /\ spc = "once"
    /\ Len(points) = 4
    /\ Len(simplified) = 3
    /\ simplified[2] \in {points[2], points[3]}
    /\ simplified[2] # points[1]
    /\ simplified[2] # points[4]


(***************************************************************************)
(* Properties of fitCurves and filterDuplicates.                           *)
(***************************************************************************)
\* |tangent * len| <= 0.4 * dist for a handle of direction record t and length
\* dist * pct / 100, dist^2 = dSq: squared and cleared of denominators
HandleWithinClamp(t, pct, dSq) ==
    (t.x * t.x + t.y * t.y) * pct * pct * dSq <= 40 * 40 * dSq * t.lenSq

\* C8: for every curve returned by fitCurves, the handle lengths |p1 - p0| and
\* |p2 - p3| are each at most 0.4 times the endpoint distance |p3 - p0|.
C8_HandlesWithinClamp ==
    fpc = "fitted" =>
        \A k \in 1 .. Len(curves) :
            LET c == curves[k]
                dSq == DistanceSq(c.p0, c.p3)
            IN  /\ HandleWithinClamp(c.tangent1, c.len1Pct, dSq)
                /\ HandleWithinClamp(c.tangent2, c.len2Pct, dSq)

\* a curve with a smooth start and a corner end, the smooth tangent taken from
\* a chord longer than the segment
C8_Witness ==
    /\ fpc = "fitted"
    /\ \E k \in 1 .. Len(curves) :
           /\ ~curves[k].p0IsCorner
           /\ curves[k].p3IsCorner
           /\ curves[k].len1Pct = SmoothPct
           /\ curves[k].tangent1.lenSq > DistanceSq(curves[k].p0, curves[k].p3)

\* C9: at the first and the last point of an open path (a neighbour is absent, the
\* adjacent edge is degenerate) the endpoint is classified as a corner, and the
\* handle there is 0.1 x the segment length, not 0.33 x.
C9_OpenEndsAreCorners ==
    (/\ fpc = "fitted"
     /\ Len(curves) >= 1
     /\ cleanPoints[1] # cleanPoints[Len(cleanPoints)]) =>
        /\ curves[1].p0IsCorner
        /\ curves[1].len1Pct = 10
        /\ curves[Len(curves)].p3IsCorner
        /\ curves[Len(curves)].len2Pct = 10

\* C10: for an input of more than 2 points whose first and last coordinates are
\* equal, the list produced by filterDuplicates (threshold 1.0) is closed exactly:
\* its last point equals its first point.
C10_FilteredStaysClosed ==
    (/\ fpc \in {"filtered", "fitted"}
     /\ Len(points) > 2
     /\ points[1] = points[Len(points)]) =>
        cleanPoints[Len(cleanPoints)] = cleanPoints[1]

\* a distance d is at most t
DistWithin(d, t) == t >= 0 /\ d.num * d.num <= t * t * d.denSq

\* C17: for every pair of consecutive points (a, b) of simplifyPath(P, t), each
\* point of P between a and b has perpendicular distance <= t from the line
\* through a and b (0 when a = b); a point farther than t from the chord of its
\* run, such as the farthest point of P from the chord first-last, is retained.
C17_DroppedPointsWithinTolerance ==
    spc = "once" =>
        LET kept == KeptIndices(points, tolerance, 0)
        IN  /\ simplified = [m \in 1 .. Len(kept) |-> points[kept[m]]]
            /\ \A m \in 1 .. Len(kept) - 1 :
                  /\ kept[m] < kept[m + 1]
                  /\ \A k \in kept[m] + 1 .. kept[m + 1] - 1 :
                        DistWithin(perpendicularDistance(points[k], points[kept[m]],
                                                         points[kept[m + 1]]),
                                   tolerance)
            /\ Len(points) >= 3 =>
                  LET far == FarthestFrom(points, 2, ZeroDistance, 1)
                  IN  ~DistWithin(far.maxDistance, tolerance) =>
                          \E m \in 1 .. Len(kept) : kept[m] = far.index

\* an inner point off the chord of its run by no more than the tolerance is
\* dropped and an inner point farther than the tolerance is kept
C17_Witness ==
    /\ spc = "once"
    /\ tolerance > 0
    /\ Len(points) = 4
    /\ Len(simplified) = 3
    /\ LET kept == KeptIndices(points, tolerance, 0)
       IN  \E m \in 1 .. 2 : \E k \in kept[m] + 1 .. kept[m + 1] - 1 :
              perpendicularDistance(points[k], points[kept[m]], points[kept[m + 1]]).num > 0

\* C14: fitCurves returns an empty curve list only if fewer than 2 points remain
\* after the duplicate filter (threshold 1.0); with 2 or more de-duplicated points
\* at least one curve is returned.
C14_EmptyOnlyBelowTwoPoints ==
    fpc = "fitted" => (curves = <<>> <=> Len(cleanPoints) < 2)

\* the filter dropped a point of the input and left exactly two points, the
\* closest pair the filter lets through
C14_Witness ==
    /\ fpc = "fitted"
    /\ Len(points) > Len(cleanPoints)
    /\ Len(cleanPoints) = 2
    /\ DistanceSq(cleanPoints[1], cleanPoints[2]) = 2
    /\ Len(curves) = 1

\* C18: the curves returned by fitCurves form one unbroken chain over the
\* de-duplicated points: there are (number of de-duplicated points - 1) curves,
\* no consecutive pair is skipped by the 0.1 distance guard, and the end point p3
\* of curve i is the start point p0 of curve i + 1.
C18_CurvesFormChain ==
    (fpc = "fitted" /\ Len(cleanPoints) >= 1) =>
        /\ Len(curves) = Len(cleanPoints) - 1
        /\ \A i \in 1 .. Len(cleanPoints) - 1 :
              /\ ~DistanceBelowTenth(cleanPoints[i], cleanPoints[i + 1])
              /\ curves[i].p0 = cleanPoints[i]
              /\ curves[i].p3 = cleanPoints[i + 1]
        /\ \A i \in 1 .. Len(curves) - 1 : curves[i].p3 = curves[i + 1].p0

\* a chain of two curves over three de-duplicated points, one input point dropped
C18_Witness ==
    /\ fpc = "fitted"
    /\ Len(cleanPoints) = 3
    /\ Len(points) > 3
    /\ Len(curves) = 2
    /\ curves[1].p3 = curves[2].p0

(***************************************************************************)
(* Buffers of dilateHybrid (under SpecDilate).                             *)
(***************************************************************************)
\* C15: for all pass counts >= 0, 0 and 0 included, dilateHybrid leaves the input
\* mask and the coverage mask unchanged and returns a new buffer that is not the
\* same object as the input mask.
C15_ReturnsNewBuffer ==
    /\ [][mask' = mask /\ coverageMask' = coverageMask]_vars
    /\ [](dpc = "done" => resultRef # "mask")

(***************************************************************************)
(* Properties of quantizeImage (under SpecQuantize).                       *)
(***************************************************************************)
\* the number of times the pixel of index i is listed in the layers
TimesListed(i) ==
    Cardinality({lk \in {<<l, k>> : l \in 1 .. Len(layers), k \in 1 .. MaxVisible} :
                    /\ lk[2] <= Len(layers[lk[1]].points)
                    /\ layers[lk[1]].points[lk[2]] = Pt(i % ImgW, i \div ImgW)})

\* C11: the layers returned by quantizeImage partition the visible pixels: every
\* pixel with alpha > 20 is listed in exactly one layer, exactly once, and no
\* pixel with alpha <= 20 is listed in any layer.
C11_LayersPartitionVisiblePixels ==
    qpc = "returned" =>
        /\ \A i \in DOMAIN pixels :
              TimesListed(i) = (IF pixels[i].a > 20 THEN 1 ELSE 0)
        /\ \A l \in 1 .. Len(layers) : \A k \in 1 .. Len(layers[l].points) :
              \E i \in DOMAIN pixels : layers[l].points[k] = Pt(i % ImgW, i \div ImgW)

\* two layers returned for an image with a transparent pixel and a pixel that was
\* equally near to both seeds
C11_Witness ==
    /\ qpc = "returned"
    /\ Len(layers) = 2
    /\ \E i \in DOMAIN pixels : pixels[i].a <= 20
    /\ \E i \in DOMAIN pixels : pixels[i].a > 20 /\ pixels[i].r = 1
    /\ \E i \in DOMAIN pixels : pixels[i].a > 20 /\ pixels[i].r = 0
    /\ \E i \in DOMAIN pixels : pixels[i].a > 20 /\ pixels[i].r = 2
    /\ layers[1].color.r = 0
    /\ layers[2].color.r = 2

\* C12: for every pixel buffer and K >= 1, whatever the random initialisation
\* picks, quantizeImage returns at most K layers, each with at least one pixel;
\* when no pixel has alpha > 20 it returns the empty list (the call is enabled
\* and returns at once) and main then ends with an empty shape list.
C12_AtMostKNonEmptyLayers ==
    /\ qpc = "returned" =>
          /\ Len(layers) <= colorCount
          /\ \A l \in 1 .. Len(layers) : Len(layers[l].points) >= 1
    /\ (\A i \in DOMAIN pixels : pixels[i].a <= 20) =>
          /\ qpc \in {"in", "returned"}
          /\ qpc = "in" => ENABLED QuantizeEmpty
          /\ qpc = "returned" => layers = <<>>
          /\ mpc = "loop" => ENABLED SortShapes
          /\ mpc = "done" => allShapes = <<>>

\* a cluster collapsed: fewer layers than centers, from an image of several colours
C12_Witness ==
    /\ mpc = "done"
    /\ colorCount = 2
    /\ Len(layers) = 1
    /\ Len(layers[1].points) >= 2
    /\ \E i, j \in DOMAIN pixels :
          pixels[i].a > 20 /\ pixels[j].a > 20 /\ pixels[i].r # pixels[j].r

\* C16: every pixel lies in the layer of its nearest cluster center: the squared
\* RGB distance from the pixel's colour to its layer's reported colour is no
\* greater than its distance to the reported colour of any other returned layer.
C16_PixelsInNearestLayer ==
    qpc = "returned" =>
        \A l, other \in 1 .. Len(layers) : \A k \in 1 .. Len(layers[l].points) :
            LET pt == layers[l].points[k]
                p == pixels[pt.y * ImgW + pt.x]
                Dist(c) == (p.r - c.r) * (p.r - c.r) + (p.g - c.g) * (p.g - c.g)
                               + (p.b - c.b) * (p.b - c.b)
            IN  Dist(layers[l].color) <= Dist(layers[other].color)

\* the pixel of the image at a cluster point
PixelAt(pt) == pixels[pt.y * ImgW + pt.x]

\* C16 (amended): every returned layer is a cluster of the last iteration with
\* that cluster's recalculated center as its colour, and each of its pixels was
\* nearest (first center on ties) to that cluster's center as it stood when the
\* last assignment loop ran, before the final recalculation.
C16_PixelsNearestAtLastAssignment ==
    qpc = "returned" =>
        \A l \in 1 .. Len(layers) :
            \E c \in 1 .. Len(clusters) :
                /\ layers[l].points = clusters[c].points
                /\ layers[l].color = centers[c]
                /\ centers[c] = Recalculated(assignedBy[c], clusters[c])
                /\ \A k \in 1 .. Len(clusters[c].points) :
                      \A d \in 1 .. Len(assignedBy) :
                          LET p == PixelAt(clusters[c].points[k])
                          IN  /\ ColorDist(p, assignedBy[c]) <= ColorDist(p, assignedBy[d])
                              /\ d < c =>
                                    ColorDist(p, assignedBy[c]) < ColorDist(p, assignedBy[d])

\* a returned pixel whose layer's reported colour is farther than another layer's
C16_Witness ==
    /\ qpc = "returned"
    /\ \E l, other \in 1 .. Len(layers) : \E k \in 1 .. Len(layers[l].points) :
          ColorDist(PixelAt(layers[l].points[k]), layers[l].color)
              > ColorDist(PixelAt(layers[l].points[k]), layers[other].color)

(***************************************************************************)
(* Properties of main's shape list (under SpecMain).                       *)
(***************************************************************************)
\* the number of times x occurs in seq
Occurrences(seq, x) == Cardinality({k \in 1 .. Len(seq) : seq[k] = x})

IsPermutation(a, b) ==
    /\ Len(a) = Len(b)
    /\ \A k \in 1 .. Len(a) : Occurrences(a, a[k]) = Occurrences(b, a[k])

NonIncreasingArea(shapes) ==
    \A k \in 1 .. Len(shapes) - 1 : shapes[k].area2 >= shapes[k + 1].area2

\* C13: the shape list handed to the renderer is a permutation of the shapes kept
\* from all layers, ordered by non-increasing area: each shape's area is >= the
\* area of the shape after it.
C13_ShapesSortedByArea ==
    /\ [][mpc' = "done" => IsPermutation(allShapes', allShapes)]_vars
    /\ [](mpc = "done" => NonIncreasingArea(allShapes))

\* three shapes; the largest comes from the second layer and was moved to the front
C13_Witness ==
    /\ mpc = "done"
    /\ Len(allShapes) = 3
    /\ Len(layers) = 2
    /\ allShapes[1].area2 > allShapes[2].area2
    /\ allShapes[1].fillColor = layers[2].color
    /\ allShapes[2].fillColor = layers[1].color

====
